---- MODULE Spec2Model ----
(***************************************************************************)
(* The DBIR evaluation driver of pytorch3d/implicitron/eval_demo.py and    *)
(* the configuration snapshot test tests/implicitron/test_data_source.py.  *)
(*                                                                         *)
(* The driver is a sequential program: main() runs three nested loops,     *)
(* calls evaluate_dbir_for_category once per (task, category, sequence     *)
(* id), prints a header and the metrics, accumulates the results per task  *)
(* and prints aggregates.  pc is the position of the single thread of      *)
(* control, in main or in the evaluation it has called.  The external      *)
(* library calls (dataset, model, metrics) are uninterpreted: each one is  *)
(* an operator that builds a value recording its arguments.                *)
(*                                                                         *)
(* Optional values are None == <<>> or Some(x) == <<x>>.                   *)
(***************************************************************************)
EXTENDS Integers, Sequences, FiniteSets, TLC

\* ------------------------------------------------------------- bounds ----
\* Length of the imported CO3D_CATEGORIES list (the real list is longer than
\* both slices main() takes of it).
NumCategories == 21
\* Largest number of batches a test dataloader yields.
MaxBatches == 2
\* Number of frames of one sequence in a test dataset.
FramesPerSeq == 2
\* Number of distinct keys a configuration may hold.
MaxKeys == 2

\* --------------------------------------------------- program constants ----
\* CO3D_CATEGORIES[: 20] for the single-sequence task.
NumSingleCategories == 20
\* CO3D_CATEGORIES[: 10] for the multi-sequence task.
NumMultiCategories == 10

None == <<>>
Some(x) == <<x>>

\* Task.SINGLE_SEQUENCE and Task.MULTI_SEQUENCE, by their values.
SINGLE_SEQUENCE == "singlesequence"
MULTI_SEQUENCE == "multisequence"

\* The imported category list; a category is identified by its position.
CO3D_CATEGORIES == [i \in 1..NumCategories |-> i]

\* Python's s[:n].
Slice(s, n) == SubSeq(s, 1, IF n < Len(s) THEN n ELSE Len(s))

\* The tuple main() iterates over for the tasks.
TASKS == <<SINGLE_SEQUENCE, MULTI_SEQUENCE>>

\* The slice lengths of the two tasks exchanged.
CategoriesOfSwapped(t) ==
  Slice(CO3D_CATEGORIES,
        IF t = SINGLE_SEQUENCE THEN NumMultiCategories ELSE NumSingleCategories)

\* CO3D_CATEGORIES[: (20 if task == Task.SINGLE_SEQUENCE else 10)]
CategoriesOf(t) ==
  Slice(CO3D_CATEGORIES,
        IF t = SINGLE_SEQUENCE THEN NumSingleCategories ELSE NumMultiCategories)

\* (0, 1) if task == Task.SINGLE_SEQUENCE else (None,)
SequenceIdsOf(t) ==
  IF t = SINGLE_SEQUENCE THEN <<Some(0), Some(1)>> ELSE <<None>>

\* ------------------------------------------- insertion-ordered dict ----
\* A Python dict is a sequence of [key, val] entries in insertion order.
DictHas(d, k) == \E i \in 1..Len(d) : d[i].key = k
DictGet(d, k) == d[CHOOSE i \in 1..Len(d) : d[i].key = k].val
DictSet(d, k, v) ==
  IF DictHas(d, k)
  THEN [i \in 1..Len(d) |-> IF d[i].key = k THEN [key |-> k, val |-> v] ELSE d[i]]
  ELSE Append(d, [key |-> k, val |-> v])
DictKeys(d) == [i \in 1..Len(d) |-> d[i].key]

VARIABLES
  pc,                     \* position of the thread of control
  error,                  \* the exception that ended main, or None
  data_known,             \* input: frames 1..data_known of a sequence are known
  data_batches,           \* input: offset of the datasets' batch counts
  task_results,           \* main: dict task -> list of category results
  task_it,                \* main: entries of TASKS already taken
  task,                   \* main: loop variable
  category_it,            \* main: categories already taken
  category,               \* main: loop variable
  sequence_it,            \* main: sequence ids already taken
  single_sequence_id,     \* main: loop variable (optional int)
  category_result,        \* main: value returned by the last evaluation
  final_it,               \* main: keys taken by the final loop
  test_restrict_sequence_id, \* evaluate: single_sequence_id after line 101
  data_source,            \* evaluate: arguments the data source was built with
  test_dataset,           \* evaluate: datasets.test (optional)
  test_dataloader,        \* evaluate: dataloaders.test (optional)
  all_source_cameras,     \* evaluate: optional camera list
  image_size,             \* evaluate: optional int
  model,                  \* evaluate: the ModelDBIR, or None
  lpips_model,            \* evaluate: the LPIPS model, or None
  per_batch_eval_results, \* evaluate: list
  batch_it,               \* evaluate: batches already taken from the dataloader
  calls,                  \* history: evaluate_dbir_for_category calls
  returned,               \* history: evaluations that returned, with the value
  camera_loads,           \* history: _get_all_source_cameras calls of this evaluation
  model_calls,            \* history: model calls of this evaluation
  eval_batch_calls,       \* history: eval_batch calls of this evaluation
  summarize_calls,        \* history: summarize_nvs_eval_results calls of this evaluation
  out,                    \* everything printed
  test_pc,                \* test_one: position
  default_args,           \* test input: get_default_args(ImplicitronDataSource)
  golden_file,            \* test: text of implicitron/data/data_source.yaml
  golden_before,          \* history: text of the golden file before the test
  yaml,                   \* test_one: local
  file_reads,             \* history: reads of the golden file
  file_writes,            \* history: writes of the golden file
  test_outcome            \* "none", "pass" or "fail"

mainVars == <<task_results, task_it, task, category_it, category, sequence_it,
              single_sequence_id, category_result, final_it>>
evalVars == <<test_restrict_sequence_id, data_source, test_dataset,
              test_dataloader, all_source_cameras, image_size, model,
              lpips_model, per_batch_eval_results, batch_it>>
histVars == <<calls, returned, camera_loads, model_calls, eval_batch_calls,
              summarize_calls>>
inputVars == <<data_known, data_batches>>
testVars == <<test_pc, default_args, golden_file, golden_before, yaml,
              file_reads, file_writes, test_outcome>>
vars == <<pc, error, inputVars, mainVars, evalVars, histVars, out, testVars>>

\* ------------------------------------------------ external libraries ----
\* The frames of the test dataset a data source with these arguments yields:
\* one sequence when assert_single_seq holds, two sequences otherwise, each
\* of FramesPerSeq frames of which the first `known` are known frames.
SequencesOf(args) ==
  IF args.assert_single_seq
  THEN << <<args.category, args.test_restrict_sequence_id>> >>
  ELSE << <<args.category, 0>>, <<args.category, 1>> >>

TestFrames(args, known) ==
  LET seqs == SequencesOf(args)
  IN  [i \in 1..(Len(seqs) * FramesPerSeq) |->
        LET sq == seqs[((i - 1) \div FramesPerSeq) + 1]
            no == ((i - 1) % FramesPerSeq) + 1
        IN  [frame_annotation |-> [sequence_name |-> sq, frame_number |-> no],
             frame_type |-> IF no <= known THEN "test_known" ELSE "test_unseen",
             camera |-> <<sq, no>>]]

\* The batches the test dataloader yields, in order.
NumBatches(args, base) ==
  (base + args.category
        + (IF args.test_restrict_sequence_id < 0 THEN 0
           ELSE args.test_restrict_sequence_id)) % (MaxBatches + 1)

TestBatches(args, base) ==
  [i \in 1..NumBatches(args, base) |->
     [category |-> args.category, task_str |-> args.task_str,
      sequence_id |-> args.test_restrict_sequence_id, batch |-> i,
      device |-> "cpu"]]

\* data_source.get_datasets_and_dataloaders(): the test dataset, the test
\* dataloader and the dataset's image_width may each be missing.
get_datasets_and_dataloaders(args, known, base, has_dataset, has_dataloader, has_width) ==
  [datasets |->
     [test |-> IF has_dataset
               THEN Some([frame_annots |-> TestFrames(args, known),
                          image_width |-> IF has_width THEN Some(800) ELSE None])
               ELSE None],
   dataloaders |->
     [test |-> IF has_dataloader THEN Some(TestBatches(args, base)) ELSE None]]

\* is_known_frame(frame_type)
is_known_frame(frame_type) == frame_type = "test_known"

\* _get_all_source_cameras(dataset, sequence_name): the cameras of the known
\* frames of the sequence, in the sequence's order.
get_all_source_cameras(dataset, sequence_name) ==
  LET frames == dataset.frame_annots
      InSequence(i) == frames[i].frame_annotation.sequence_name = sequence_name
      seq_idx == SelectSeq([i \in 1..Len(frames) |-> i], InSequence)
      all_frame_data == [j \in 1..Len(seq_idx) |-> frames[seq_idx[j]]]
      IsKnown(j) == is_known_frame(all_frame_data[j].frame_type)
      where == SelectSeq([j \in 1..Len(all_frame_data) |-> j], IsKnown)
  IN  [k \in 1..Len(where) |-> all_frame_data[where[k]].camera]

\* dataclass_to_cuda_(frame_data)
dataclass_to_cuda_(frame_data) == [frame_data EXCEPT !.device = "cuda"]

\* ModelDBIR(render_image_width=..., render_image_height=..., ...)
ModelDBIR(width, height) ==
  [render_image_width |-> width, render_image_height |-> height]

\* model(**dataclasses.asdict(frame_data))
ModelForward(m, frame_data) ==
  [implicitron_render |->
     [batch |-> frame_data.batch, width |-> m.render_image_width]]

\* eval_batch(frame_data, render, bg_color, lpips_model, source_cameras)
eval_batch(frame_data, render, lpips, source_cameras) ==
  [frame_data |-> frame_data, render |-> render, lpips_model |-> lpips,
   source_cameras |-> source_cameras]

\* summarize_nvs_eval_results(per_batch_eval_results, task): a pair of the
\* flat and the nested summary.
summarize_nvs_eval_results(results, t) ==
  << [flat |-> Len(results), task |-> t],
     [results |-> [task |-> t, per_batch |-> results], task |-> t] >>

\* aggregate_nvs_results(task_results[task])
aggregate_nvs_results(results) == [aggregate_of |-> results]


\* ------------------------------------------------------------ driver ----
\* single_sequence_id or -1: the falsy id 0 is replaced too.
RestrictSequenceIdFalsy(id) == IF id # None /\ id[1] # 0 THEN id[1] ELSE -1

\* single_sequence_id if single_sequence_id is not None else -1
RestrictSequenceId(id) == IF id # None THEN id[1] ELSE -1

\* dataset_map_provider_args, as far as it depends on the call.
DatasetMapProviderArgs(cat, t, restrict) ==
  [category |-> cat,
   assert_single_seq |-> (t = SINGLE_SEQUENCE),
   task_str |-> t,
   test_on_train |-> FALSE,
   load_point_clouds |-> TRUE,
   test_restrict_sequence_id |-> restrict]

\* f"Results for task={task}; category={category};"
\*   + (f" sequence={single_sequence_id}:" if single_sequence_id is not None else ":")
ResultHeader(t, cat, id) ==
  <<"Results for task=", t, "; category=", ToString(cat), ";">>
    \o (IF id # None THEN <<" sequence=", ToString(id[1]), ":">> ELSE <<":">>)

\* raise ValueError(message)
ValueError(message) == [type |-> "ValueError", message |-> message]

\* "and" in place of "or".
MissingBoth(dataset, dataloader) == dataset = None /\ dataloader = None

\* line 123: test_dataset is None or test_dataloader is None
MissingTestData(dataset, dataloader) == dataset = None \/ dataloader = None

\* The cameras loaded whatever the task.
NeedsSourceCamerasAlways(t) == TRUE

\* line 126: task == Task.SINGLE_SEQUENCE
NeedsSourceCameras(t) == t = SINGLE_SEQUENCE

\* The flat summary returned instead of the nested one's "results".
EvaluateReturnFlat(summary) == summary[1]

\* What evaluate_dbir_for_category returns, given what
\* summarize_nvs_eval_results returned.
EvaluateReturn(summary) == summary[2].results

\* The aggregate taken over the first task's results whatever the task.
print_aggregate_results_first(t, results, o) ==
  Append(o, [kind |-> "aggregate", task |-> t,
             value |-> aggregate_nvs_results(results[1].val)])

\* _print_aggregate_results(task, task_results): the output afterwards.
print_aggregate_results(t, results, o) ==
  Append(o, [kind |-> "aggregate", task |-> t,
             value |-> aggregate_nvs_results(DictGet(results, t))])

TestIdle ==
  /\ test_pc = "idle"
  /\ default_args = <<>>
  /\ golden_file = <<>>
  /\ golden_before = <<>>
  /\ yaml = None
  /\ file_reads = 0
  /\ file_writes = 0
  /\ test_outcome = "none"

DriverIdle ==
  /\ error = None
  /\ task_results = None
  /\ task_it = 0
  /\ task = None
  /\ category_it = 0
  /\ category = None
  /\ sequence_it = 0
  /\ single_sequence_id = None
  /\ category_result = None
  /\ final_it = 0
  /\ test_restrict_sequence_id = None
  /\ data_source = None
  /\ test_dataset = None
  /\ test_dataloader = None
  /\ all_source_cameras = None
  /\ image_size = None
  /\ model = None
  /\ lpips_model = None
  /\ per_batch_eval_results = <<>>
  /\ batch_it = 0
  /\ calls = <<>>
  /\ returned = <<>>
  /\ camera_loads = <<>>
  /\ model_calls = <<>>
  /\ eval_batch_calls = <<>>
  /\ summarize_calls = <<>>
  /\ out = <<>>

Init ==
  /\ pc = "main"
  /\ data_known \in 0..FramesPerSeq
  /\ data_batches \in 0..MaxBatches
  /\ DriverIdle
  /\ TestIdle

\* line 48: task_results = {}
MainStart ==
  /\ pc = "main"
  /\ task_results' = <<>>
  /\ task_it' = 0
  /\ pc' = "for_task"
  /\ UNCHANGED <<error, inputVars, task, category_it, category, sequence_it,
                 single_sequence_id, category_result, final_it, evalVars,
                 histVars, out, testVars>>

\* lines 49-50: the next task, or the end of the first loop.
ForTask ==
  /\ pc = "for_task"
  /\ IF task_it < Len(TASKS)
     THEN /\ task' = TASKS[task_it + 1]
          /\ task_it' = task_it + 1
          /\ task_results' = DictSet(task_results, task', <<>>)
          /\ category_it' = 0
          /\ pc' = "for_category"
          /\ UNCHANGED final_it
     ELSE /\ final_it' = 0
          /\ pc' = "final_for"
          /\ UNCHANGED <<task, task_it, task_results, category_it>>
  /\ UNCHANGED <<error, inputVars, category, sequence_it, single_sequence_id,
                 category_result, evalVars, histVars, out, testVars>>

\* line 51: the next category of the task's slice.
ForCategory ==
  /\ pc = "for_category"
  /\ IF category_it < Len(CategoriesOf(task))
     THEN /\ category' = CategoriesOf(task)[category_it + 1]
          /\ category_it' = category_it + 1
          /\ sequence_it' = 0
          /\ pc' = "for_sequence"
     ELSE /\ pc' = "for_task"
          /\ UNCHANGED <<category, category_it, sequence_it>>
  /\ UNCHANGED <<error, inputVars, task_results, task_it, task,
                 single_sequence_id, category_result, final_it, evalVars,
                 histVars, out, testVars>>

\* lines 52-54: the next sequence id, or on to the aggregate of line 71.
ForSequence ==
  /\ pc = "for_sequence"
  /\ IF sequence_it < Len(SequenceIdsOf(task))
     THEN /\ single_sequence_id' = SequenceIdsOf(task)[sequence_it + 1]
          /\ sequence_it' = sequence_it + 1
          /\ pc' = "call_evaluate"
     ELSE /\ pc' = "aggregate"
          /\ UNCHANGED <<single_sequence_id, sequence_it>>
  /\ UNCHANGED <<error, inputVars, task_results, task_it, task, category_it,
                 category, category_result, final_it, evalVars, histVars, out,
                 testVars>>

\* lines 55-57 and 101-117: the call, the normalised sequence id and the
\* data source.
EvaluateEntry ==
  /\ pc = "call_evaluate"
  /\ calls' = Append(calls, [task |-> task, category |-> category,
                             single_sequence_id |-> single_sequence_id])
  /\ test_restrict_sequence_id' = RestrictSequenceId(single_sequence_id)
  /\ data_source' = Some(DatasetMapProviderArgs(category, task,
                                                test_restrict_sequence_id'))
  /\ test_dataset' = None
  /\ test_dataloader' = None
  /\ all_source_cameras' = None
  /\ image_size' = None
  /\ model' = None
  /\ lpips_model' = None
  /\ per_batch_eval_results' = <<>>
  /\ batch_it' = 0
  /\ camera_loads' = <<>>
  /\ model_calls' = <<>>
  /\ eval_batch_calls' = <<>>
  /\ summarize_calls' = <<>>
  /\ pc' = "get_datasets"
  /\ UNCHANGED <<error, inputVars, mainVars, returned, out, testVars>>

\* lines 119-124
GetDatasets ==
  /\ pc = "get_datasets"
  /\ \E has_dataset, has_dataloader, has_width \in BOOLEAN :
       LET got == get_datasets_and_dataloaders(data_source[1], data_known,
                    data_batches, has_dataset, has_dataloader, has_width)
       IN  /\ test_dataset' = got.datasets.test
           /\ test_dataloader' = got.dataloaders.test
  /\ IF MissingTestData(test_dataset', test_dataloader')
     THEN /\ error' = Some(ValueError("must have a test dataset."))
          /\ pc' = "raised"
     ELSE /\ pc' = "load_cameras"
          /\ UNCHANGED error
  /\ UNCHANGED <<inputVars, mainVars, test_restrict_sequence_id, data_source,
                 all_source_cameras, image_size, model, lpips_model,
                 per_batch_eval_results, batch_it, histVars, out, testVars>>

\* lines 126-135
LoadCameras ==
  /\ pc = "load_cameras"
  /\ IF NeedsSourceCameras(task)
     THEN LET sequence_name ==
                test_dataset[1].frame_annots[1].frame_annotation.sequence_name
          IN  /\ all_source_cameras' =
                   Some(get_all_source_cameras(test_dataset[1], sequence_name))
              /\ camera_loads' = Append(camera_loads, sequence_name)
     ELSE /\ all_source_cameras' = None
          /\ UNCHANGED camera_loads
  /\ pc' = "image_size"
  /\ UNCHANGED <<error, inputVars, mainVars, test_restrict_sequence_id,
                 data_source, test_dataset, test_dataloader, image_size, model,
                 lpips_model, per_batch_eval_results, batch_it, calls, returned,
                 model_calls, eval_batch_calls, summarize_calls, out, testVars>>

\* lines 137-140
CheckImageSize ==
  /\ pc = "image_size"
  /\ image_size' = test_dataset[1].image_width
  /\ IF image_size' = None
     THEN /\ error' = Some(ValueError("Image size should be set in the dataset"))
          /\ pc' = "raised"
     ELSE /\ pc' = "init_models"
          /\ UNCHANGED error
  /\ UNCHANGED <<inputVars, mainVars, test_restrict_sequence_id, data_source,
                 test_dataset, test_dataloader, all_source_cameras, model,
                 lpips_model, per_batch_eval_results, batch_it, histVars, out,
                 testVars>>

\* lines 142-156
InitModels ==
  /\ pc = "init_models"
  /\ model' = Some(ModelDBIR(image_size[1], image_size[1]))
  /\ lpips_model' = Some([net |-> "vgg"])
  /\ per_batch_eval_results' = <<>>
  /\ batch_it' = 0
  /\ out' = Append(out, [kind |-> "progress", text |-> "Evaluating DBIR model ..."])
  /\ pc' = "batch_loop"
  /\ UNCHANGED <<error, inputVars, mainVars, test_restrict_sequence_id,
                 data_source, test_dataset, test_dataloader, all_source_cameras,
                 image_size, histVars, testVars>>

\* lines 157-168: one iteration of the batch loop, or its end.
BatchLoop ==
  /\ pc = "batch_loop"
  /\ IF batch_it < Len(test_dataloader[1])
     THEN LET frame_data == dataclass_to_cuda_(test_dataloader[1][batch_it + 1])
              preds == ModelForward(model[1], frame_data)
          IN  /\ model_calls' = Append(model_calls, frame_data)
              /\ eval_batch_calls' =
                   Append(eval_batch_calls,
                          [frame_data |-> frame_data,
                           source_cameras |-> all_source_cameras])
              /\ per_batch_eval_results' =
                   Append(per_batch_eval_results,
                          eval_batch(frame_data, preds.implicitron_render,
                                     lpips_model[1], all_source_cameras))
              /\ batch_it' = batch_it + 1
              /\ UNCHANGED pc
     ELSE /\ pc' = "summarize"
          /\ UNCHANGED <<model_calls, eval_batch_calls, per_batch_eval_results,
                         batch_it>>
  /\ UNCHANGED <<error, inputVars, mainVars, test_restrict_sequence_id,
                 data_source, test_dataset, test_dataloader, all_source_cameras,
                 image_size, model, lpips_model, calls, returned, camera_loads,
                 summarize_calls, out, testVars>>

\* lines 170-174 and the assignment of line 55
Summarize ==
  /\ pc = "summarize"
  /\ LET summary == summarize_nvs_eval_results(per_batch_eval_results, task)
     IN  /\ category_result' = Some(EvaluateReturn(summary))
         /\ returned' = Append(returned,
                               [task |-> task, category |-> category,
                                single_sequence_id |-> single_sequence_id,
                                result |-> EvaluateReturn(summary)])
  /\ summarize_calls' = Append(summarize_calls,
                               [results |-> per_batch_eval_results,
                                task |-> task])
  /\ pc' = "print_result"
  /\ UNCHANGED <<error, inputVars, task_results, task_it, task, category_it,
                 category, sequence_it, single_sequence_id, final_it, evalVars,
                 calls, camera_loads, model_calls, eval_batch_calls, out,
                 testVars>>

\* lines 58-70
PrintResult ==
  /\ pc = "print_result"
  /\ out' = out \o
       << [kind |-> "header",
           text |-> ResultHeader(task, category, single_sequence_id)],
          [kind |-> "metrics", value |-> category_result[1]] >>
  /\ task_results' =
       DictSet(task_results, task,
               Append(DictGet(task_results, task), category_result[1]))
  /\ pc' = "for_sequence"
  /\ UNCHANGED <<error, inputVars, task_it, task, category_it, category,
                 sequence_it, single_sequence_id, category_result, final_it,
                 evalVars, histVars, testVars>>

\* line 71
AggregateInLoop ==
  /\ pc = "aggregate"
  /\ out' = print_aggregate_results(task, task_results, out)
  /\ pc' = "for_category"
  /\ UNCHANGED <<error, inputVars, mainVars, evalVars, histVars, testVars>>

\* lines 73-74: the keys of task_results in insertion order.
FinalFor ==
  /\ pc = "final_for"
  /\ IF final_it < Len(DictKeys(task_results))
     THEN /\ task' = DictKeys(task_results)[final_it + 1]
          /\ final_it' = final_it + 1
          /\ out' = print_aggregate_results(task', task_results, out)
          /\ UNCHANGED pc
     ELSE /\ pc' = "done"
          /\ UNCHANGED <<task, final_it, out>>
  /\ UNCHANGED <<error, inputVars, task_results, task_it, category_it,
                 category, sequence_it, single_sequence_id, category_result,
                 evalVars, histVars, testVars>>

Next ==
  \/ MainStart
  \/ ForTask
  \/ ForCategory
  \/ ForSequence
  \/ EvaluateEntry
  \/ GetDatasets
  \/ LoadCameras
  \/ CheckImageSize
  \/ InitModels
  \/ BatchLoop
  \/ Summarize
  \/ PrintResult
  \/ AggregateInLoop
  \/ FinalFor

Spec == Init /\ [][Next]_vars


\* ------------------------------------------------- the snapshot test ----
\* A configuration is the sequence of its [key, value] entries in
\* declaration order; a key is its rank in alphabetical order.  A YAML text
\* is the sequence of its lines, a line holding one key and its value.
ConfigEntries == [key : 1..MaxKeys, value : 0..1]

Configs ==
  { c \in UNION { [1..n -> ConfigEntries] : n \in 0..MaxKeys } :
      \A i, j \in 1..Len(c) : c[i].key = c[j].key => i = j }

\* s with entry e inserted before the first entry of a larger key.
RECURSIVE InsertByKey(_, _)
InsertByKey(s, e) ==
  IF s = <<>> THEN <<e>>
  ELSE IF e.key < Head(s).key THEN <<e>> \o s
  ELSE <<Head(s)>> \o InsertByKey(Tail(s), e)

RECURSIVE SortByKey(_)
SortByKey(s) ==
  IF s = <<>> THEN <<>> ELSE InsertByKey(SortByKey(Tail(s)), Head(s))

\* OmegaConf.to_yaml(cfg, sort_keys=...): one line per entry.
to_yaml(cfg, sort_keys) ==
  LET entries == IF sort_keys THEN SortByKey(cfg) ELSE cfg
  IN  [i \in 1..Len(entries) |->
        [line |-> <<ToString(entries[i].key), ": ", ToString(entries[i].value)>>]]

\* The flag left switched on.
DEBUG_on == TRUE

\* DEBUG: bool = False
DEBUG == FALSE

\* The golden file holds the serialization of some configuration, written by
\* an earlier run of the test in DEBUG mode.
InitTest ==
  /\ pc = "idle"
  /\ data_known = 0
  /\ data_batches = 0
  /\ DriverIdle
  /\ test_pc = "setUp"
  /\ default_args \in Configs
  /\ golden_file \in { to_yaml(c, FALSE) : c \in Configs }
  /\ golden_before = golden_file
  /\ yaml = None
  /\ file_reads = 0
  /\ file_writes = 0
  /\ test_outcome = "none"

driverVars == <<pc, error, inputVars, mainVars, evalVars, histVars, out>>

\* lines 24-25
TestSetUp ==
  /\ test_pc = "setUp"
  /\ test_pc' = "test_one"
  /\ UNCHANGED <<driverVars, default_args, golden_file, golden_before, yaml,
                 file_reads, file_writes, test_outcome>>

\* lines 28-29
TestSerialize ==
  /\ test_pc = "test_one"
  /\ yaml' = Some(to_yaml(default_args, FALSE))
  /\ test_pc' = "debug"
  /\ UNCHANGED <<driverVars, default_args, golden_file, golden_before,
                 file_reads, file_writes, test_outcome>>

\* lines 30-31
TestDebugWrite ==
  /\ test_pc = "debug"
  /\ IF DEBUG
     THEN /\ golden_file' = yaml[1]
          /\ file_writes' = file_writes + 1
     ELSE UNCHANGED <<golden_file, file_writes>>
  /\ test_pc' = "assertEqual"
  /\ UNCHANGED <<driverVars, default_args, golden_before, yaml, file_reads,
                 test_outcome>>

\* line 32
TestAssertEqual ==
  /\ test_pc = "assertEqual"
  /\ file_reads' = file_reads + 1
  /\ test_outcome' = IF yaml[1] = golden_file THEN "pass" ELSE "fail"
  /\ test_pc' = "finished"
  /\ UNCHANGED <<driverVars, default_args, golden_file, golden_before, yaml,
                 file_writes>>

NextTest ==
  \/ TestSetUp
  \/ TestSerialize
  \/ TestDebugWrite
  \/ TestAssertEqual

SpecTest == InitTest /\ [][NextTest]_vars


\* ============================================================ claims ====
\* The evaluations a complete run of main() makes, written out: 40 for the
\* single-sequence task, then 10 for the multi-sequence task.
ExpectedCalls ==
  [i \in 1..50 |->
     IF i <= 40
     THEN [task |-> SINGLE_SEQUENCE,
           category |-> CO3D_CATEGORIES[(i + 1) \div 2],
           single_sequence_id |-> Some((i + 1) % 2)]
     ELSE [task |-> MULTI_SEQUENCE,
           category |-> CO3D_CATEGORIES[i - 40],
           single_sequence_id |-> None]]

CallOf(r) ==
  [task |-> r.task, category |-> r.category,
   single_sequence_id |-> r.single_sequence_id]

\* C1: main() calls evaluate_dbir_for_category in a fixed order: the calls
\* made so far are always a prefix of the 50 expected calls (20 categories x
\* sequence ids 0, 1 for SINGLE_SEQUENCE, then 10 categories x None for
\* MULTI_SEQUENCE), a run of main() that returns has made exactly these 50,
\* at most one evaluation is in progress, no MULTI_SEQUENCE evaluation has
\* started unless all 40 SINGLE_SEQUENCE evaluations have returned, and no
\* triple is evaluated twice.
C1_CallOrder ==
  /\ Len(calls) <= 50
  /\ calls = SubSeq(ExpectedCalls, 1, Len(calls))
  /\ pc = "done" => Len(calls) = 50 /\ Len(returned) = 50
  /\ Len(returned) <= Len(calls)
  /\ Len(calls) <= Len(returned) + 1
  /\ \A i \in 1..Len(returned) : CallOf(returned[i]) = calls[i]
  /\ \A i \in 1..Len(calls) :
       calls[i].task = MULTI_SEQUENCE =>
         /\ Len(returned) >= 40
         /\ \A j \in 1..40 : returned[j].task = SINGLE_SEQUENCE
  /\ \A i, j \in 1..Len(calls) : calls[i] = calls[j] => i = j

C1_Witness ==
  /\ pc = "done"
  /\ Len(calls) = 50
  /\ calls[41].task = MULTI_SEQUENCE


\* The batch the loop takes i-th, moved to the device, and what the loop
\* must have appended for it.
FrameOf(i) == dataclass_to_cuda_(test_dataloader[1][i])

ExpectedBatchEval(i) ==
  eval_batch(FrameOf(i),
             ModelForward(model[1], FrameOf(i)).implicitron_render,
             lpips_model[1], all_source_cameras)

ExpectedBatchEvals(n) == [i \in 1..n |-> ExpectedBatchEval(i)]

\* C2: in evaluate_dbir_for_category, after k iterations of the batch loop
\* the model and eval_batch have each been called exactly once for each of
\* the first k batches of the dataloader, in order, and
\* per_batch_eval_results holds their k results in that order;
\* summarize_nvs_eval_results is not called before the last batch and is
\* called exactly once, with the full list and the task, and the function
\* returns the "results" entry of its second return value.
C2_BatchLoop ==
  /\ Len(summarize_calls) <= 1
  /\ model # None =>
       /\ batch_it <= Len(test_dataloader[1])
       /\ per_batch_eval_results = ExpectedBatchEvals(batch_it)
       /\ model_calls = [i \in 1..batch_it |-> FrameOf(i)]
       /\ Len(eval_batch_calls) = batch_it
       /\ \A i \in 1..batch_it : eval_batch_calls[i].frame_data = FrameOf(i)
       /\ pc = "batch_loop" => summarize_calls = <<>>
       /\ pc = "summarize" =>
            /\ summarize_calls = <<>>
            /\ batch_it = Len(test_dataloader[1])
       /\ pc = "print_result" =>
            LET full == ExpectedBatchEvals(Len(test_dataloader[1]))
            IN  /\ per_batch_eval_results = full
                /\ summarize_calls = << [results |-> full, task |-> task] >>
                /\ category_result =
                     Some(summarize_nvs_eval_results(full, task)[2].results)
                /\ returned[Len(returned)].result = category_result[1]

C2_Witness ==
  /\ pc = "print_result"
  /\ Len(per_batch_eval_results) >= 2
  /\ Len(summarize_calls) = 1

IsAggregate(e) == e.kind = "aggregate"
Aggregates == SelectSeq(out, IsAggregate)

\* The results of the evaluations of task t that have returned, in order.
ResultsOf(t) ==
  LET OfTask(r) == r.task = t
      rs == SelectSeq(returned, OfTask)
  IN  [i \in 1..Len(rs) |-> rs[i].result]

\* The task and the number of results of the m-th aggregate main() prints.
ExpectedAggregate(m) ==
  IF m <= 20 THEN [task |-> SINGLE_SEQUENCE, n |-> 2 * m]
  ELSE IF m <= 30 THEN [task |-> MULTI_SEQUENCE, n |-> m - 20]
  ELSE IF m = 31 THEN [task |-> SINGLE_SEQUENCE, n |-> 40]
  ELSE [task |-> MULTI_SEQUENCE, n |-> 10]

\* C3: every aggregate main() prints is taken over exactly the results of
\* the evaluations of its own task that have returned when it is printed, in
\* evaluation order: the k-th one of SINGLE_SEQUENCE over 2k results, the
\* k-th one of MULTI_SEQUENCE over k results, and after both loops one more
\* per task, SINGLE_SEQUENCE first, over all 40 and all 10 results.
C3_Aggregates ==
  /\ Len(Aggregates) <= 32
  /\ pc = "done" => Len(Aggregates) = 32
  /\ \A m \in 1..Len(Aggregates) :
       LET e == ExpectedAggregate(m)
       IN  /\ Aggregates[m].task = e.task
           /\ e.n <= Len(ResultsOf(e.task))
           /\ Aggregates[m].value =
                aggregate_nvs_results(SubSeq(ResultsOf(e.task), 1, e.n))
  /\ (\/ pc = "for_category" /\ category_it >= 1
      \/ pc = "final_for" /\ final_it >= 1) =>
       /\ Aggregates # <<>>
       /\ Aggregates[Len(Aggregates)].task = task
       /\ Aggregates[Len(Aggregates)].value =
            aggregate_nvs_results(ResultsOf(task))

C3_Witness ==
  /\ pc = "done"
  /\ Len(Aggregates) = 32
  /\ Len(ResultsOf(SINGLE_SEQUENCE)) = 40
  /\ Len(ResultsOf(MULTI_SEQUENCE)) = 10


MissingMessage == "must have a test dataset."
ImageSizeMessage == "Image size should be set in the dataset"

\* C4: evaluate_dbir_for_category raises ValueError when the data source
\* returns no test dataset or no test dataloader, and when the test
\* dataset's image_width is None, and for no other reason; when it has
\* raised, neither the DBIR model nor the LPIPS model has been constructed,
\* no batch has been evaluated, and the evaluation has returned no result.
C4_Errors ==
  /\ pc # "raised" => error = None
  /\ pc = "raised" =>
       /\ error # None
       /\ error[1].type = "ValueError"
       /\ error[1].message \in {MissingMessage, ImageSizeMessage}
       /\ model = None
       /\ lpips_model = None
       /\ model_calls = <<>>
       /\ eval_batch_calls = <<>>
       /\ per_batch_eval_results = <<>>
       /\ summarize_calls = <<>>
       /\ Len(returned) = Len(calls) - 1
       /\ category_result =
            (IF returned = <<>> THEN None
             ELSE Some(returned[Len(returned)].result))
  /\ (/\ data_source # None
      /\ pc # "get_datasets"
      /\ (test_dataset = None \/ test_dataloader = None)) =>
       /\ pc = "raised"
       /\ error[1].message = MissingMessage
  /\ (/\ test_dataset # None
      /\ test_dataloader # None
      /\ pc \notin {"load_cameras", "image_size"}
      /\ test_dataset[1].image_width = None) =>
       /\ pc = "raised"
       /\ error[1].message = ImageSizeMessage

C4_Witness ==
  /\ pc = "raised"
  /\ error[1].message = ImageSizeMessage
  /\ camera_loads # <<>>
  /\ Len(returned) >= 1

\* The evaluation in progress has passed lines 126-135.
AfterLoadCameras ==
  \/ pc \in {"image_size", "init_models", "batch_loop", "summarize",
             "print_result"}
  \/ pc = "raised" /\ test_dataset # None /\ test_dataloader # None

\* C6: once evaluate_dbir_for_category has passed lines 126-135,
\* _get_all_source_cameras has been called (once, for the sequence name of
\* the first frame annotation of the test dataset) if and only if task is
\* SINGLE_SEQUENCE, and all_source_cameras is its result, or None for
\* MULTI_SEQUENCE; every eval_batch call of the evaluation was passed that
\* same value as source_cameras.
C6_SourceCameras ==
  /\ AfterLoadCameras =>
       LET name ==
             test_dataset[1].frame_annots[1].frame_annotation.sequence_name
       IN  /\ (task = SINGLE_SEQUENCE) <=> (camera_loads # <<>>)
           /\ task = SINGLE_SEQUENCE =>
                /\ camera_loads = <<name>>
                /\ all_source_cameras =
                     Some(get_all_source_cameras(test_dataset[1], name))
           /\ task = MULTI_SEQUENCE => all_source_cameras = None
  /\ \A i \in 1..Len(eval_batch_calls) :
       eval_batch_calls[i].source_cameras = all_source_cameras
  /\ \A i \in 1..Len(per_batch_eval_results) :
       per_batch_eval_results[i].source_cameras = all_source_cameras

C6_Witness ==
  /\ pc = "batch_loop"
  /\ task = SINGLE_SEQUENCE
  /\ Len(eval_batch_calls) >= 2
  /\ all_source_cameras # None
  /\ all_source_cameras[1] # <<>>

IsHeader(e) == e.kind = "header"
Headers == SelectSeq(out, IsHeader)

MentionsSequence(text) == \E i \in 1..Len(text) : text[i] = " sequence="

HasSequencePart(text, id) ==
  \E i \in 1..(Len(text) - 1) :
     text[i] = " sequence=" /\ text[i + 1] = ToString(id)

\* C7: a single_sequence_id of None becomes -1 and every other value,
\* 0 included, is passed on unchanged; so every data source main() has
\* configured has assert_single_seq TRUE and test_restrict_sequence_id the
\* call's id, 0 or 1, for SINGLE_SEQUENCE, and assert_single_seq FALSE and
\* test_restrict_sequence_id -1 for MULTI_SEQUENCE; and the i-th result
\* header printed contains "sequence=<id>" exactly when the i-th evaluation
\* is a SINGLE_SEQUENCE one (sequence 0 included).
C7_SequenceId ==
  /\ RestrictSequenceId(None) = -1
  /\ \A id \in {-1, 0, 1, 2} : RestrictSequenceId(Some(id)) = id
  /\ data_source # None =>
       LET a == data_source[1]
           c == calls[Len(calls)]
       IN  /\ a.category = c.category
           /\ a.task_str = c.task
           /\ c.task = SINGLE_SEQUENCE =>
                /\ a.assert_single_seq = TRUE
                /\ a.test_restrict_sequence_id \in {0, 1}
                /\ a.test_restrict_sequence_id = c.single_sequence_id[1]
           /\ c.task = MULTI_SEQUENCE =>
                /\ a.assert_single_seq = FALSE
                /\ a.test_restrict_sequence_id = -1
  /\ Len(Headers) <= Len(returned)
  /\ Len(returned) <= Len(Headers) + 1
  /\ \A i \in 1..Len(Headers) :
       LET c == ExpectedCalls[i]
       IN  /\ MentionsSequence(Headers[i].text) <=> c.task = SINGLE_SEQUENCE
           /\ c.task = SINGLE_SEQUENCE =>
                HasSequencePart(Headers[i].text, c.single_sequence_id[1])

C7_Witness ==
  /\ data_source # None
  /\ data_source[1].test_restrict_sequence_id = -1
  /\ Len(Headers) >= 41
  /\ HasSequencePart(Headers[1].text, 0)
  /\ ~MentionsSequence(Headers[41].text)

\* C5: test_one passes exactly when the serialization of the default
\* arguments with the keys in declaration order equals the text the golden
\* file held before the test; the test reads the golden file once and never
\* writes it.
C5_Snapshot ==
  /\ file_writes = 0
  /\ golden_file = golden_before
  /\ file_reads = (IF test_pc = "finished" THEN 1 ELSE 0)
  /\ test_pc # "finished" => test_outcome = "none"
  /\ test_pc = "finished" =>
       /\ test_outcome \in {"pass", "fail"}
       /\ test_outcome = "pass" <=> to_yaml(default_args, FALSE) = golden_before

\* The golden file holds the same entries with the keys sorted, the default
\* arguments declare them in another order, and the test fails.
C5_Witness ==
  /\ test_pc = "finished"
  /\ test_outcome = "fail"
  /\ to_yaml(default_args, TRUE) = golden_before
  /\ file_reads = 1

====
